---- MODULE Spec2Model ----
(***************************************************************************)
(* Model of src/src/App.jsx: the MultiModelChatApp component.  The state   *)
(* is the component's useState cells (apiKeys, question, responses,        *)
(* loading), the promises created by handleSubmit, and history variables   *)
(* that record what each submission captured and issued.  JavaScript       *)
(* strings are sequences of tokens; a JavaScript value is a record         *)
(* [t |-> "string", v |-> tokens] or [t |-> "undefined", v |-> <<>>].      *)
(***************************************************************************)
EXTENDS Integers, Sequences, FiniteSets, TLC

VARIABLES
    apiKeys,      \* useState, line 5: provider id -> credential string
    question,     \* useState, line 19
    responses,    \* useState, line 20: object, provider id -> value
    loading,      \* useState, line 21: object, provider id -> boolean
    activeModels, \* what the last render listed (lines 292-302, 308)
    requests,     \* per accepted submission: the question and apiKeys its closure captured
    promises,     \* per accepted submission: the state of each promise of line 179
    awaitAll,     \* per accepted submission: the state of Promise.all, line 194
    fetchLog,     \* per accepted submission: number of fetch calls issued per provider
    origin,       \* provider id -> the submission whose task wrote responses[id]
    lastEvent     \* the kind of handler or continuation that ran last

vars == <<apiKeys, question, responses, loading, activeModels, requests,
          promises, awaitAll, fetchLog, origin, lastEvent>>

----------------------------------------------------------------------------
(* Bounds of the model *)

MaxSubmits == 2      \* accepted submissions in one behaviour

----------------------------------------------------------------------------
(* The provider registry, lines 24-29 *)

models == <<"openai", "anthropic", "google", "cohere">>

ModelIds == {models[i] : i \in 1..Len(models)}

----------------------------------------------------------------------------
(* JavaScript strings and objects *)

Str(s) == [t |-> "string", v |-> s]
Undefined == [t |-> "undefined", v |-> <<>>]

IsWhitespace(c) == c = " "

RECURSIVE trimStart(_)
trimStart(s) ==
    IF s # <<>> /\ IsWhitespace(Head(s)) THEN trimStart(Tail(s)) ELSE s

RECURSIVE trimEnd(_)
trimEnd(s) ==
    IF s # <<>> /\ IsWhitespace(s[Len(s)])
    THEN trimEnd(SubSeq(s, 1, Len(s) - 1))
    ELSE s

\* String.prototype.trim as used on lines 40 and 162
trim(s) == trimEnd(trimStart(s))

EmptyObject == [k \in {} |-> TRUE]

\* { ...prev, [key]: value }
Spread(prev, key, value) ==
    [k \in (DOMAIN prev) \cup {key} |-> IF k = key THEN value ELSE prev[k]]

----------------------------------------------------------------------------
(* Inputs *)

KeyInputs == {<<>>, <<" ">>, <<"k">>, <<" ", "k", " ">>}
QuestionInputs == {<<" ">>, <<"q">>}

----------------------------------------------------------------------------
(* The network.  A call's fetch either rejects or resolves to a response   *)
(* with a status; a response body either fails to parse as JSON or parses  *)
(* to an object in which the first `depth` components of the provider's    *)
(* answer path exist, the last of them holding `text`.                     *)

Net(fetch, status, json, depth, text) ==
    [fetch |-> fetch, status |-> status, json |-> json, depth |-> depth, text |-> text]

ErrorStatuses == {401, 500}
Texts == {<<>>, <<"hi">>}

\* number of components of the answer path: lines 59, 79, 123, 142
PathLen(modelId) ==
    CASE modelId = "openai" -> 4      \* choices [0] message content
      [] modelId = "anthropic" -> 3   \* content [0] text
      [] modelId = "google" -> 6      \* candidates [0] content parts [0] text
      [] modelId = "cohere" -> 3      \* generations [0] text
      [] OTHER -> 0

NetResults(modelId) ==
    {Net("reject", 0, FALSE, 0, <<>>)}
        \cup {Net("response", s, FALSE, 0, <<>>) : s \in ErrorStatuses}
        \cup {Net("response", 200, FALSE, 0, <<>>)}
        \cup {Net("response", 200, TRUE, d, <<>>) : d \in 0..(PathLen(modelId) - 1)}
        \cup {Net("response", 200, TRUE, PathLen(modelId), t) : t \in Texts}

\* response.ok
Ok(net) == net.status >= 200 /\ net.status <= 299

Digit(d) == <<"0", "1", "2", "3", "4", "5", "6", "7", "8", "9">>[d + 1]

\* a number interpolated into a template literal
RECURSIVE Decimal(_)
Decimal(n) == IF n < 10 THEN <<Digit(n)>> ELSE Decimal(n \div 10) \o <<Digit(n % 10)>>

Return(value) == [kind |-> "return", val |-> value, msg |-> <<>>]
Throw(message) == [kind |-> "throw", val |-> Undefined, msg |-> message]

FetchFailed == <<"Failed to fetch">>
JsonSyntaxError == <<"Unexpected token in JSON">>
TypeErrorMessage == <<"Cannot read properties of undefined">>

\* await response.json() followed by a property path of `len` components
ReadPath(net, len) ==
    IF ~net.json THEN Throw(JsonSyntaxError)
    ELSE IF net.depth >= len THEN Return(Str(net.text))
    ELSE IF net.depth = len - 1 THEN Return(Undefined)
    ELSE Throw(TypeErrorMessage)

\* callOpenAI with the status left out of the message of line 57
callOpenAINoStatus(net) ==
    IF net.fetch = "reject" THEN Throw(FetchFailed)
    ELSE IF ~Ok(net) THEN Throw(<<"OpenAI API error">>)
    ELSE ReadPath(net, PathLen("openai"))

callOpenAI(net) ==
    IF net.fetch = "reject" THEN Throw(FetchFailed)
    ELSE IF ~Ok(net) THEN Throw(<<"OpenAI API error: ">> \o Decimal(net.status))
    ELSE ReadPath(net, PathLen("openai"))

callAnthropic(net) ==
    IF net.fetch = "reject" THEN Throw(FetchFailed)
    ELSE IF ~Ok(net) THEN Throw(<<"Anthropic API error: ">> \o Decimal(net.status))
    ELSE ReadPath(net, PathLen("anthropic"))

callGoogle(net) ==
    IF net.fetch = "reject" THEN Throw(FetchFailed)
    ELSE IF ~Ok(net)
    THEN Throw(<<"Google API error: ">> \o Decimal(net.status) \o <<" - ", "<body>">>)
    ELSE IF ~net.json THEN Throw(JsonSyntaxError)
    ELSE IF net.depth < 3 THEN Throw(<<"No response generated from Google API">>)
    ELSE ReadPath(net, PathLen("google"))

callCohere(net) ==
    IF net.fetch = "reject" THEN Throw(FetchFailed)
    ELSE IF ~Ok(net) THEN Throw(<<"Cohere API error: ">> \o Decimal(net.status))
    ELSE ReadPath(net, PathLen("cohere"))

callModel(modelId, net) ==
    CASE modelId = "openai" -> callOpenAI(net)
      [] modelId = "anthropic" -> callAnthropic(net)
      [] modelId = "google" -> callGoogle(net)
      [] modelId = "cohere" -> callCohere(net)
      [] OTHER -> Throw(<<"Unknown model">>)

----------------------------------------------------------------------------
(* The component *)

\* getAvailableModels without the trim of line 40
getAvailableModelsNoTrim(keys) ==
    SelectSeq(models, LAMBDA modelId : keys[modelId] # <<>>)

\* lines 39-41, over the apiKeys of the render that calls it
getAvailableModels(keys) ==
    SelectSeq(models, LAMBDA modelId : trim(keys[modelId]) # <<>>)

Ids(modelSeq) == {modelSeq[i] : i \in 1..Len(modelSeq)}

\* state after construction: lines 5-21
Init ==
    /\ apiKeys = [m \in ModelIds |-> <<>>]
    /\ question = <<>>
    /\ responses = EmptyObject
    /\ loading = EmptyObject
    /\ activeModels = <<>>
    /\ requests = <<>>
    /\ promises = <<>>
    /\ awaitAll = <<>>
    /\ fetchLog = <<>>
    /\ origin = EmptyObject
    /\ lastEvent = "init"

\* handleApiKeyChange with the updater of line 32 dropping ...prev, the
\* other credentials falling back to the empty string
handleApiKeyChangeNoSpread(modelId, value) ==
    /\ apiKeys' = [m \in ModelIds |-> IF m = modelId THEN value ELSE <<>>]
    /\ activeModels' = getAvailableModels(apiKeys')
    /\ lastEvent' = "input"
    /\ UNCHANGED <<question, responses, loading, requests, promises, awaitAll,
                   fetchLog, origin>>

\* lines 31-33, and the render that follows the state change
handleApiKeyChange(modelId, value) ==
    /\ apiKeys' = [apiKeys EXCEPT ![modelId] = value]
    /\ activeModels' = getAvailableModels(apiKeys')
    /\ lastEvent' = "input"
    /\ UNCHANGED <<question, responses, loading, requests, promises, awaitAll,
                   fetchLog, origin>>

\* line 269
setQuestion(value) ==
    /\ question' = value
    /\ lastEvent' = "input"
    /\ UNCHANGED <<apiKeys, responses, loading, activeModels, requests, promises,
                   awaitAll, fetchLog, origin>>

\* lines 172-175: the loadingState object
LoadingState(availableModels) == [id \in Ids(availableModels) |-> TRUE]

\* the dispatch mapped over the whole registry instead of availableModels
DispatchAllModels(availableModels) == [id \in ModelIds |-> 1]

\* lines 179-181: one async task per element of availableModels, each of
\* which calls callModel, and so fetch, once before it first suspends
Dispatch(availableModels) ==
    [id \in ModelIds |->
        Cardinality({i \in 1..Len(availableModels) : availableModels[i] = id})]

\* lines 162 and 165-168: handleSubmit returns without touching the state;
\* `event` tells the silent return of line 162 from the alert of line 166
Return_(event) ==
    /\ lastEvent' = event
    /\ UNCHANGED <<apiKeys, question, responses, loading, activeModels,
                   requests, promises, awaitAll, fetchLog, origin>>

\* Accept without the setResponses({}) of line 171
AcceptKeepResponses(availableModels) ==
    /\ responses' = responses
    /\ loading' = LoadingState(availableModels)
    /\ requests' = Append(requests, [question |-> question, apiKeys |-> apiKeys])
    /\ promises' = Append(promises, [id \in Ids(availableModels) |-> "pending"])
    /\ fetchLog' = Append(fetchLog, Dispatch(availableModels))
    /\ awaitAll' = Append(awaitAll, "pending")
    /\ origin' = origin
    /\ lastEvent' = "submit:accepted"
    /\ UNCHANGED <<apiKeys, question, activeModels>>

\* lines 170-194: the reset, the dispatch of one task per available model
\* and the Promise.all over them, up to the first suspension
Accept(availableModels) ==
    /\ responses' = EmptyObject
    /\ loading' = LoadingState(availableModels)
    /\ requests' = Append(requests, [question |-> question, apiKeys |-> apiKeys])
    /\ promises' = Append(promises, [id \in Ids(availableModels) |-> "pending"])
    /\ fetchLog' = Append(fetchLog, Dispatch(availableModels))
    /\ awaitAll' = Append(awaitAll, "pending")
    /\ origin' = EmptyObject
    /\ lastEvent' = "submit:accepted"
    /\ UNCHANGED <<apiKeys, question, activeModels>>

\* handleSubmit with line 162 testing the question without trim
handleSubmitNoTrim ==
    IF question = <<>>
    THEN Return_("submit:blank")
    ELSE LET availableModels == getAvailableModels(apiKeys) IN
         IF Len(availableModels) = 0
         THEN Return_("submit:alert")
         ELSE Accept(availableModels)

\* handleSubmit without the check of lines 165-168
handleSubmitNoKeyCheck ==
    IF trim(question) = <<>>
    THEN Return_("submit:blank")
    ELSE Accept(getAvailableModels(apiKeys))

\* lines 160-195, run from the click of line 281 or the key of line 275
handleSubmit ==
    IF trim(question) = <<>>
    THEN Return_("submit:blank")
    ELSE LET availableModels == getAvailableModels(apiKeys) IN
         IF Len(availableModels) = 0
         THEN Return_("submit:alert")
         ELSE Accept(availableModels)

\* ProviderTask with the updaters of lines 182-190 dropping ...prev
ProviderTaskNoSpread(modelId, result) ==
    [responses |->
        IF result.kind = "return"
        THEN Spread(EmptyObject, modelId, result.val)
        ELSE Spread(EmptyObject, modelId, Str(<<"Error: ">> \o result.msg)),
     loading |-> Spread(EmptyObject, modelId, FALSE),
     promise |-> "fulfilled"]

\* ProviderTask holding its result back while another provider is loading
ProviderTaskBuffered(modelId, result) ==
    IF \E other \in (DOMAIN loading) \ {modelId} : loading[other]
    THEN [responses |-> responses, loading |-> loading, promise |-> "fulfilled"]
    ELSE [responses |->
              IF result.kind = "return"
              THEN Spread(responses, modelId, result.val)
              ELSE Spread(responses, modelId, Str(<<"Error: ">> \o result.msg)),
          loading |-> Spread(loading, modelId, FALSE),
          promise |-> "fulfilled"]

\* lines 180-191: what the task of one provider does once callModel has
\* settled with `result`: the new responses, the new loading, and the state
\* its own promise ends in
ProviderTask(modelId, result) ==
    [responses |->
        IF result.kind = "return"
        THEN Spread(responses, modelId, result.val)
        ELSE Spread(responses, modelId, Str(<<"Error: ">> \o result.msg)),
     loading |-> Spread(loading, modelId, FALSE),
     promise |-> "fulfilled"]

\* Promise.all replaced by a combinator that resolves with the first
\* fulfilled promise
PromiseAny(states) ==
    IF \E id \in DOMAIN states : states[id] = "fulfilled" THEN "resolved"
    ELSE "pending"

\* Promise.all of line 194: rejects with the first rejection, resolves once
\* every promise is fulfilled
PromiseAll(states) ==
    IF \E id \in DOMAIN states : states[id] = "rejected" THEN "rejected"
    ELSE IF \A id \in DOMAIN states : states[id] = "fulfilled" THEN "resolved"
    ELSE "pending"

\* the continuation of the task of submission `sub` for `modelId`, run when
\* the network answers with `net`; the await of line 194 resumes in the
\* microtasks of the same turn, before any other handler runs
Settle(sub, modelId, net) ==
    /\ sub \in 1..Len(promises)
    /\ modelId \in DOMAIN promises[sub]
    /\ promises[sub][modelId] = "pending"
    /\ LET done == ProviderTask(modelId, callModel(modelId, net)) IN
        /\ responses' = done.responses
        /\ loading' = done.loading
        /\ promises' = [promises EXCEPT ![sub][modelId] = done.promise]
        /\ origin' = Spread(origin, modelId, sub)
    /\ awaitAll' = [awaitAll EXCEPT ![sub] =
                        IF @ = "pending" THEN PromiseAll(promises'[sub]) ELSE @]
    /\ lastEvent' = "settle"
    /\ UNCHANGED <<apiKeys, question, activeModels, requests, fetchLog>>

\* the truthiness of loading[key]: undefined when the key is absent
Loading(key) == key \in DOMAIN loading /\ loading[key]

\* the truthiness of a value: undefined and the empty string are falsy
Truthy(value) == value.t = "string" /\ value.v # <<>>

\* lines 317-330: the content of the panel of a listed model
Panel(modelId) ==
    IF Loading(modelId) THEN [shows |-> "spinner", text |-> <<>>]
    ELSE IF modelId \in DOMAIN responses /\ Truthy(responses[modelId])
    THEN [shows |-> "text", text |-> responses[modelId].v]
    ELSE [shows |-> "idle", text |-> <<>>]

\* line 308: the models that get a panel
Panels == Ids(getAvailableModels(apiKeys))

WouldAccept == trim(question) # <<>> /\ Len(getAvailableModels(apiKeys)) > 0

\* the providers whose credential the user edits, and what the user types
MainModels == {"openai", "google"}
MainKeyInputs == {<<>>, <<"k">>}

\* one network result of each kind that the task of lines 180-191 tells apart
MainResults(modelId) ==
    {Net("reject", 0, FALSE, 0, <<>>),
     Net("response", 500, FALSE, 0, <<>>),
     Net("response", 200, TRUE, PathLen(modelId) - 1, <<>>),
     Net("response", 200, TRUE, PathLen(modelId), <<"hi">>)}

Next ==
    \/ \E modelId \in MainModels, value \in MainKeyInputs :
        handleApiKeyChange(modelId, value)
    \/ \E value \in QuestionInputs : setQuestion(value)
    \/ (WouldAccept => Len(requests) < MaxSubmits) /\ handleSubmit
    \/ \E sub \in 1..Len(promises) : \E modelId \in DOMAIN promises[sub] :
        \E net \in MainResults(modelId) : Settle(sub, modelId, net)

Spec == Init /\ [][Next]_vars

\* the network answers every call that was issued: each pending task is
\* eventually resumed
NetworkAnswers ==
    \A sub \in 1..MaxSubmits : \A modelId \in MainModels :
        WF_vars(\E net \in MainResults(modelId) : Settle(sub, modelId, net))

\* the steps of a user who only fills in credentials and the question
NextFair ==
    \/ \E modelId \in MainModels : handleApiKeyChange(modelId, <<"k">>)
    \/ setQuestion(<<"q">>)
    \/ (WouldAccept => Len(requests) < MaxSubmits) /\ handleSubmit
    \/ \E sub \in 1..Len(promises) : \E modelId \in DOMAIN promises[sub] :
        \E net \in MainResults(modelId) : Settle(sub, modelId, net)

SpecFair == Init /\ [][NextFair]_vars /\ NetworkAnswers

\* the steps of a user who configures a single provider, any of the four,
\* with the network answering in every way of NetResults
NextCalls ==
    \/ \E modelId \in ModelIds :
        /\ \A other \in ModelIds \ {modelId} : apiKeys[other] = <<>>
        /\ handleApiKeyChange(modelId, <<"k">>)
    \/ setQuestion(<<"q">>)
    \/ (WouldAccept => Len(requests) < MaxSubmits) /\ handleSubmit
    \/ \E sub \in 1..Len(promises) : \E modelId \in DOMAIN promises[sub] :
        \E net \in NetResults(modelId) : Settle(sub, modelId, net)

SpecCalls == Init /\ [][NextCalls]_vars

\* the credential form alone (lines 229-235), every provider, every input
NextKeys ==
    \E modelId \in ModelIds, value \in KeyInputs : handleApiKeyChange(modelId, value)

SpecKeys == Init /\ [][NextKeys]_vars

----------------------------------------------------------------------------
(* Vocabulary of the claims *)

\* a string with a character that is not whitespace
NonBlank(s) == \E i \in 1..Len(s) : ~IsWhitespace(s[i])

RegistryIndex(modelId) == CHOOSE i \in 1..Len(models) : models[i] = modelId

InRegistryOrder(modelSeq) ==
    \A i, j \in 1..Len(modelSeq) :
        i < j => RegistryIndex(modelSeq[i]) < RegistryIndex(modelSeq[j])

Current == Len(requests)

\* the providers with a usable credential when submission `sub` was made
EligibleAt(sub) == {id \in ModelIds : NonBlank(requests[sub].apiKeys[id])}

IsFailureOutcome(value) ==
    value.t = "string" /\ value.v # <<>> /\ Head(value.v) = "Error: "

\* the network results that are failures of the call
IsFailure(modelId, net) ==
    \/ net.fetch = "reject"
    \/ ~Ok(net)
    \/ ~net.json
    \/ net.depth < PathLen(modelId)

\* the outcome slot of a provider in given responses and loading objects
Slot(resp, load, id) ==
    [response |-> IF id \in DOMAIN resp THEN <<resp[id]>> ELSE <<>>,
     pending |-> IF id \in DOMAIN load THEN <<load[id]>> ELSE <<>>]

Settled(id) == id \in DOMAIN loading /\ ~loading[id]

\* this step is the settlement of a call for provider `id`
SettleStep(id) ==
    /\ Len(promises') = Len(promises)
    /\ \E sub \in 1..Len(promises) :
        /\ id \in DOMAIN promises[sub]
        /\ promises[sub][id] = "pending"
        /\ promises'[sub][id] # "pending"

SubmitEvents == {"submit:blank", "submit:alert", "submit:accepted"}

OutcomeState == <<responses, loading, requests, promises, awaitAll, fetchLog, origin>>

----------------------------------------------------------------------------
(* C1 *)

\* C1: every stored response was produced by a call of the most recent
\* submission, never by a call of a superseded one.
C1_ResponsesAreCurrent ==
    \A id \in DOMAIN origin : origin[id] = Current

----------------------------------------------------------------------------
(* C2 *)

\* C2 as stated: the rendered eligible list holds exactly the providers whose
\* credential is a non-empty string, in registry order.
C2_NonEmptyCredentialsListed ==
    /\ Ids(activeModels) = {id \in ModelIds : apiKeys[id] # <<>>}
    /\ InRegistryOrder(activeModels)

\* C2 amended: the eligible list holds exactly the providers whose credential
\* has a non-whitespace character, in registry order.
C2_NonBlankCredentialsListed ==
    /\ Ids(activeModels) = {id \in ModelIds : NonBlank(apiKeys[id])}
    /\ InRegistryOrder(activeModels)

C2_Witness ==
    /\ apiKeys["openai"] = <<" ">>
    /\ apiKeys["anthropic"] = <<"k">>
    /\ apiKeys["google"] = <<>>
    /\ apiKeys["cohere"] = <<" ", "k", " ">>
    /\ activeModels = <<"anthropic", "cohere">>

----------------------------------------------------------------------------
(* C3 *)

\* C3: a submit with an empty or whitespace-only question returns silently:
\* responses, loading, the promises and the issued calls are unchanged.
C3_BlankSubmitIsNoOp ==
    [][(lastEvent' \in SubmitEvents /\ ~NonBlank(question))
          => (lastEvent' = "submit:blank" /\ UNCHANGED OutcomeState)]_vars

C3_Witness ==
    /\ lastEvent = "submit:blank"
    /\ question = <<" ">>
    /\ Current > 0
    /\ \E id \in DOMAIN promises[Current] : promises[Current][id] = "pending"

----------------------------------------------------------------------------
(* C4 *)

\* C4: a submit with a non-blank question and no usable credential raises
\* the alert and changes neither responses, loading, promises nor calls.
C4_NoProviderSubmitIsNoOp ==
    [][(/\ lastEvent' \in SubmitEvents
        /\ NonBlank(question)
        /\ \A id \in ModelIds : ~NonBlank(apiKeys[id]))
          => (lastEvent' = "submit:alert" /\ UNCHANGED OutcomeState)]_vars

C4_Witness ==
    /\ lastEvent = "submit:alert"
    /\ Current > 0
    /\ DOMAIN responses # {}

----------------------------------------------------------------------------
(* C5 *)

\* C5: after an accepted submission the providers that hold an outcome slot
\* are exactly those whose credential was usable at the latest submission.
C5_SlotsAreEligibleProviders ==
    Current > 0 => (DOMAIN responses) \cup (DOMAIN loading) = EligibleAt(Current)

----------------------------------------------------------------------------
(* C6 *)

\* C6: within one submission a settled provider stays settled and no call
\* settles on it again.
C6_SettledOnce ==
    [][\A id \in ModelIds :
          (Settled(id) /\ requests' = requests)
              => (Settled(id)' /\ ~SettleStep(id))]_vars

----------------------------------------------------------------------------
(* C7 *)

\* C7: the settlement of one provider's call leaves the response and the
\* pending flag of every other provider as they were.
C7_SettleLeavesOthers ==
    [][\A id \in ModelIds :
          SettleStep(id)
              => \A other \in ModelIds \ {id} :
                    Slot(responses', loading', other) = Slot(responses, loading, other)]_vars

C7_Witness ==
    /\ lastEvent = "settle"
    /\ Current = 1
    /\ DOMAIN responses = {"openai", "google"}
    /\ responses["openai"] = Str(<<"hi">>)
    /\ IsFailureOutcome(responses["google"])
    /\ Settled("openai") /\ Settled("google")

----------------------------------------------------------------------------
(* C8 *)

\* C8: every failed call ends as an 'Error: ...' response of its provider,
\* its promise is fulfilled and Promise.all does not reject.
C8_FailuresBecomeFailureOutcomes ==
    [][\A sub \in 1..Len(promises) : \A id \in DOMAIN promises[sub] :
          \A net \in MainResults(id) :
              (Settle(sub, id, net) /\ IsFailure(id, net))
                  => (/\ IsFailureOutcome(responses'[id])
                      /\ promises'[sub][id] = "fulfilled"
                      /\ awaitAll'[sub] # "rejected")]_vars

----------------------------------------------------------------------------
(* C9 *)

\* C9: right after an accepted submit no response is stored, every eligible
\* provider is pending and no other provider has a slot.
C9_AcceptResetsAll ==
    lastEvent = "submit:accepted"
        => (/\ responses = EmptyObject
            /\ DOMAIN loading = EligibleAt(Current)
            /\ \A id \in DOMAIN loading : loading[id])

C9_Witness ==
    /\ lastEvent = "submit:accepted"
    /\ Current = 2
    /\ EligibleAt(1) = {"openai", "google"}
    /\ EligibleAt(2) = {"openai"}
    /\ promises[1]["google"] = "fulfilled"

----------------------------------------------------------------------------
(* C10 *)

\* C10: each accepted submission issued exactly one call for each provider
\* eligible at that submission and none for the others, at any later time.
C10_OneCallPerEligible ==
    \A sub \in 1..Current : \A id \in ModelIds :
        fetchLog[sub][id] = IF id \in EligibleAt(sub) THEN 1 ELSE 0

C10_Witness ==
    /\ Current = 1
    /\ EligibleAt(1) = {"google"}
    /\ apiKeys["openai"] # <<>>
    /\ promises[1]["google"] = "fulfilled"
    /\ "google" \in DOMAIN responses
    /\ IsFailureOutcome(responses["google"])


----------------------------------------------------------------------------
(* C11 *)

\* the call that submission `sub` issued for provider `id` has not settled
CallPending(sub, id) ==
    /\ sub \in 1..Len(promises)
    /\ id \in DOMAIN promises[sub]
    /\ promises[sub][id] = "pending"

ShowsPending(id) == id \in DOMAIN loading /\ loading[id]

\* C11: when the network answers every call, every pending flag is
\* eventually cleared, and the Promise.all of a submission has completed
\* only when every call of the submission has settled.
C11_AllSettleThenComplete ==
    /\ \A id \in MainModels : ShowsPending(id) ~> ~ShowsPending(id)
    /\ [](\A sub \in 1..Len(awaitAll) :
             awaitAll[sub] # "pending"
                 => \A id \in DOMAIN promises[sub] : promises[sub][id] = "fulfilled")

C11_Witness ==
    /\ Current = 1
    /\ EligibleAt(1) = {"openai", "google"}
    /\ awaitAll[1] = "resolved"
    /\ ~ShowsPending("openai") /\ ~ShowsPending("google")


----------------------------------------------------------------------------
(* C12 *)

\* C12: a provider whose call of the current submission has settled shows
\* its response with the pending flag cleared, whatever the other providers
\* are doing, and every call still pending can be the next one to settle.
C12_ObservableWhenSettled ==
    Current > 0 =>
        \A id \in DOMAIN promises[Current] :
            IF promises[Current][id] = "pending"
            THEN ENABLED (\E net \in MainResults(id) : Settle(Current, id, net))
            ELSE id \in DOMAIN responses /\ ~ShowsPending(id)

\* the later provider of the registry has settled while the earlier one is
\* still pending
C12_Witness ==
    /\ Current = 1
    /\ EligibleAt(1) = {"openai", "google"}
    /\ promises[1]["google"] = "fulfilled" /\ promises[1]["openai"] = "pending"
    /\ "google" \in DOMAIN responses /\ ~ShowsPending("google")
    /\ ShowsPending("openai") /\ "openai" \notin DOMAIN responses

\* the same with the two providers exchanged
C12_WitnessEarlierFirst ==
    /\ Current = 1
    /\ EligibleAt(1) = {"openai", "google"}
    /\ promises[1]["openai"] = "fulfilled" /\ promises[1]["google"] = "pending"
    /\ "openai" \in DOMAIN responses /\ ~ShowsPending("openai")
    /\ ShowsPending("google") /\ "google" \notin DOMAIN responses


----------------------------------------------------------------------------
(* C13 *)

\* the decimal text of the statuses the network answers with
StatusText(status) ==
    CASE status = 200 -> <<"2", "0", "0">>
      [] status = 401 -> <<"4", "0", "1">>
      [] status = 500 -> <<"5", "0", "0">>

Contains(s, part) ==
    \E i \in 1..(Len(s) - Len(part) + 1) : SubSeq(s, i, i + Len(part) - 1) = part

C13_WitnessSuccess ==
    /\ Current = 1
    /\ "cohere" \in DOMAIN responses
    /\ responses["cohere"] = Str(<<"hi">>)
    /\ ~ShowsPending("cohere")


----------------------------------------------------------------------------
(* C14 *)

\* C14: a submit, accepted or not, and a settlement leave apiKeys unchanged;
\* a step that changes apiKeys is an input step that changes one entry of
\* apiKeys and nothing else of the component's state.
C14_OnlyKeyChangeEditsCredentials ==
    [][/\ lastEvent' \in SubmitEvents \cup {"settle"} => apiKeys' = apiKeys
       /\ apiKeys' # apiKeys
            => /\ lastEvent' = "input"
               /\ Cardinality({id \in ModelIds : apiKeys'[id] # apiKeys[id]}) = 1
               /\ UNCHANGED <<question, responses, loading>>]_vars

C14_Witness ==
    /\ lastEvent = "input"
    /\ Current = 1
    /\ promises[1] = [id \in {"google"} |-> "fulfilled"]
    /\ requests[1].apiKeys["openai"] = <<>>
    /\ apiKeys["openai"] = <<"k">>
    /\ apiKeys["google"] = <<"k">>


----------------------------------------------------------------------------
(* C15 *)

\* C15: a displayed panel shows the spinner exactly while its provider is
\* pending, and once the provider holds an answer text or an error message
\* with the pending flag cleared it shows exactly that text, the empty text
\* included, never the idle placeholder.
C15_PanelShowsOutcome ==
    \A id \in Panels :
        /\ Panel(id).shows = "spinner" <=> ShowsPending(id)
        /\ (/\ id \in DOMAIN loading /\ ~loading[id]
            /\ id \in DOMAIN responses /\ responses[id].t = "string")
              => Panel(id) = [shows |-> "text", text |-> responses[id].v]


----------------------------------------------------------------------------
(* C16 *)

\* C16: a provider eligible in the most recent submission has its pending
\* flag set exactly while the call that submission issued for it is pending.
C16_FlagFollowsCurrentCall ==
    Current > 0 =>
        \A id \in EligibleAt(Current) :
            ShowsPending(id) <=> CallPending(Current, id)

----------------------------------------------------------------------------
(* C17 *)

\* C17: a provider whose pending flag is cleared holds a response that is
\* an answer text or an 'Error: ...' message.
C17_ClearedFlagHasResponse ==
    \A id \in DOMAIN loading :
        ~loading[id] => (id \in DOMAIN responses /\ responses[id].t = "string")

====
